---- MODULE Spec2Model ----
(***************************************************************************)
(* A model of the file-archiving chat bot: its start-up, the logger (its    *)
(* lines and thread counters), the message handler (allow-list,            *)
(* getFileIds, processFile, the two notifications) and the two callback    *)
(* handlers (exist, remove).                                               *)
(*                                                                         *)
(* JavaScript strings are modelled as sequences of one-character strings,  *)
(* so that split, parseInt, extname, toLowerCase, toString(16), the        *)
(* regular expressions and the HTML escaping are computed character by     *)
(* character, as the code computes them.                                   *)
(***************************************************************************)
EXTENDS Integers, Sequences, FiniteSets, TLC

VARIABLES
    ENABLE_GROUPS,  \* process.env.ENABLE_GROUPS, a string
    enableGroups,   \* the parsed allow-list (part_000 line 56)
    disk,           \* names of the files present under savePath
    lastThreadIds,  \* logger.mts: Map label -> last sequence id
    issued,         \* per label, the ids createThread has returned, in order
    hs,             \* the handler invocations in flight, per slot
    returned,       \* the invocation that returned in the last step, if any
    posts,          \* the bot's messages that currently exist on the platform
    nextMessageId,  \* the platform's message id counter
    now,            \* Date.now(), in milliseconds
    arg,            \* input of the pure function under check
    ret,            \* its result
    hist            \* what has happened to each file name (SpecHistory only)

vars == <<ENABLE_GROUPS, enableGroups, disk, lastThreadIds, issued, hs, returned,
          posts, nextMessageId, now, arg, ret, hist>>

(***************************************************************************)
(* Bounds of the model.                                                    *)
(***************************************************************************)
MaxGroups == 3      \* entries in ENABLE_GROUPS
MaxCalls == 4       \* handler invocations in one run of the process
MaxMessages == 2    \* of them, inbound messages
MaxTicks == 1       \* clock advances, of 48 hours or a millisecond more
MaxTail == 3        \* characters appended to the URL stem (file-name check)
MaxPhotos == 3      \* photo variants of a message
MaxSize == 2        \* largest declared file_size
MaxLen == 4         \* characters of an interpolated value (escape check)

(***************************************************************************)
(* Characters and strings.                                                 *)
(***************************************************************************)
Digits == <<"0","1","2","3","4","5","6","7","8","9","a","b","c","d","e","f",
            "g","h","i","j","k","l","m","n","o","p","q","r","s","t","u","v",
            "w","x","y","z">>

UpperLetters == <<"A","B","C","D","E","F","G","H","I","J","K","L","M","N","O",
                  "P","Q","R","S","T","U","V","W","X","Y","Z">>

LowerLetters == <<"a","b","c","d","e","f","g","h","i","j","k","l","m","n","o",
                  "p","q","r","s","t","u","v","w","x","y","z">>

Range(s) == {s[i] : i \in DOMAIN s}

SeqsUpTo(S, n) == UNION {[1..k -> S] : k \in 0..n}

RECURSIVE Concat(_)
Concat(ss) == IF ss = <<>> THEN <<>> ELSE Head(ss) \o Concat(Tail(ss))

\* String.prototype.toLowerCase, on the ASCII letters
ToLowerChar(c) ==
    IF \E i \in DOMAIN UpperLetters : UpperLetters[i] = c
    THEN LowerLetters[CHOOSE i \in DOMAIN UpperLetters : UpperLetters[i] = c]
    ELSE c

toLowerCase(s) == [i \in DOMAIN s |-> ToLowerChar(s[i])]

\* String.prototype.split( ',' )
RECURSIVE split(_, _)
split(s, sep) ==
    IF \A i \in DOMAIN s : s[i] # sep
    THEN <<s>>
    ELSE LET k == CHOOSE i \in DOMAIN s :
                      s[i] = sep /\ \A j \in 1..(i - 1) : s[j] # sep
         IN  <<SubSeq(s, 1, k - 1)>> \o split(SubSeq(s, k + 1, Len(s)), sep)

RECURSIVE join(_, _)
join(ss, sep) ==
    IF ss = <<>> THEN <<>>
    ELSE IF Len(ss) = 1 THEN ss[1]
    ELSE ss[1] \o <<sep>> \o join(Tail(ss), sep)

(***************************************************************************)
(* Number.parseInt( string, radix ): optional sign, then the longest       *)
(* prefix of digits valid in the radix; radix 0 means 10, a radix outside  *)
(* 2..36 gives NaN, no digit gives NaN.  The result is <<>> for NaN and     *)
(* <<k>> for the integer k.                                                *)
(***************************************************************************)
NaN == <<>>

DigitValue(c) ==
    IF \E i \in DOMAIN Digits : Digits[i] = c
    THEN (CHOOSE i \in DOMAIN Digits : Digits[i] = c) - 1
    ELSE 36

RECURSIVE DigitsValue(_, _)
DigitsValue(ds, R) ==
    IF ds = <<>> THEN 0
    ELSE DigitsValue(SubSeq(ds, 1, Len(ds) - 1), R) * R + DigitValue(ds[Len(ds)])

parseInt(str, radix) ==
    LET neg  == str # <<>> /\ str[1] = "-"
        body == IF neg THEN Tail(str) ELSE str
        R    == IF radix = 0 THEN 10 ELSE radix
        n    == IF \A i \in DOMAIN body : DigitValue(body[i]) < R
                THEN Len(body)
                ELSE (CHOOSE i \in DOMAIN body :
                          /\ DigitValue(body[i]) >= R
                          /\ \A j \in 1..(i - 1) : DigitValue(body[j]) < R) - 1
    IN  IF R < 2 \/ R > 36 THEN NaN
        ELSE IF n = 0 THEN NaN
        ELSE IF neg THEN <<0 - DigitsValue(SubSeq(body, 1, n), R)>>
        ELSE <<DigitsValue(SubSeq(body, 1, n), R)>>

\* Array.prototype.map calls its callback with ( element, index, array ), so
\* .map( Number.parseInt ) passes the 0-based index as the radix
MapParseInt(strs) == [i \in DOMAIN strs |-> parseInt(strs[i], i - 1)]

ParseEnableGroups(value) == MapParseInt(split(value, ","))

\* Array.prototype.includes: NaN entries equal no chat id
includes(list, x) == \E i \in DOMAIN list : list[i] = <<x>>

(***************************************************************************)
(* processFile: the file name.                                             *)
(* crypto.randomInt( 16^8, 16^9 ) exceeds 32 bits, so the integer n is     *)
(* held as [hi, lo] with n = hi * 16^4 + lo and 0 <= lo < 16^4.            *)
(***************************************************************************)
Pow16_4 == 65536
Pow16_5 == 1048576

\* the integers randomInt( Math.pow( 16, 8 ), Math.pow( 16, 9 ) ) can return
InRandomRange(n) ==
    /\ n.hi \in Pow16_4..(Pow16_5 - 1)
    /\ n.lo \in 0..(Pow16_4 - 1)

RECURSIVE IntToString16(_)
IntToString16(k) ==
    IF k < 16 THEN <<Digits[k + 1]>>
    ELSE IntToString16(k \div 16) \o <<Digits[(k % 16) + 1]>>

RECURSIVE PadStart(_, _)
PadStart(s, width) == IF Len(s) >= width THEN s ELSE PadStart(<<"0">> \o s, width)

\* Number.prototype.toString( 16 )
toString16(n) ==
    IF n.hi = 0 THEN IntToString16(n.lo)
    ELSE IntToString16(n.hi) \o PadStart(IntToString16(n.lo), 4)

\* path.extname: of the last path segment (trailing slashes dropped), the
\* text from its last dot on; empty when the segment has no dot, when its
\* only dot is its first character, and for the segment ".."
StripSlashes(p) ==
    LET keep == {i \in DOMAIN p : p[i] # "/"}
    IN  IF keep = {} THEN <<>>
        ELSE SubSeq(p, 1, CHOOSE i \in keep : \A j \in keep : j <= i)

Basename(p) ==
    LET q == StripSlashes(p)
        slashes == {i \in DOMAIN q : q[i] = "/"}
    IN  IF slashes = {} THEN q
        ELSE SubSeq(q, (CHOOSE i \in slashes : \A j \in slashes : j <= i) + 1, Len(q))

extname(p) ==
    LET base == Basename(p)
        dots == {i \in DOMAIN base : base[i] = "."}
        startDot == CHOOSE i \in dots : \A j \in dots : j <= i
    IN  IF dots = {} THEN <<>>
        ELSE IF startDot = 1 THEN <<>>
        ELSE IF base = <<".", ".">> THEN <<>>
        ELSE SubSeq(base, startDot, Len(base))

FileNameLower(n, href) == toString16(n) \o extname(href)

\* part_000 lines 119-121
FileName(n, href) == toString16(n) \o toLowerCase(extname(href))

(***************************************************************************)
(* The callback payloads and the Action Router's patterns.                 *)
(***************************************************************************)
HexDigits == {Digits[i] : i \in 1..16}
Letters == Range(LowerLetters)

ExistPrefix == <<"e","x","i","s","t",":">>
RemovePrefix == <<"r","e","m","o","v","e",":">>

\* ^[\da-f]+\.[a-z]+$
MatchesFile(s) ==
    \E k \in DOMAIN s :
        /\ s[k] = "."
        /\ k > 1
        /\ k < Len(s)
        /\ \A i \in 1..(k - 1) : s[i] \in HexDigits
        /\ \A i \in (k + 1)..Len(s) : s[i] \in Letters

HasPrefix(s, pre) == Len(s) >= Len(pre) /\ SubSeq(s, 1, Len(pre)) = pre

\* bot.action( /^exist:(?<file>...)$/ ) and bot.action( /^remove:(?<file>...)$/ ):
\* the handler and ctx.match.groups.file, or "ignored" when no pattern matches
Route(data) ==
    IF HasPrefix(data, ExistPrefix)
       /\ MatchesFile(SubSeq(data, Len(ExistPrefix) + 1, Len(data)))
    THEN [action |-> "exist", file |-> SubSeq(data, Len(ExistPrefix) + 1, Len(data))]
    ELSE IF HasPrefix(data, RemovePrefix)
            /\ MatchesFile(SubSeq(data, Len(RemovePrefix) + 1, Len(data)))
    THEN [action |-> "remove", file |-> SubSeq(data, Len(RemovePrefix) + 1, Len(data))]
    ELSE [action |-> "ignored", file |-> <<>>]

(***************************************************************************)
(* getFileIds.  A message is a function from the keys it carries to their  *)
(* values; an optional property that is absent is a key outside the        *)
(* record's domain.  The result is <<>> for false and <<file>> otherwise.  *)
(***************************************************************************)
OtherKindsReversed == <<"document", "video", "voice", "audio", "sticker">>

\* line 102
OtherKinds == <<"sticker", "audio", "voice", "video", "document">>

\* p.file_size is truthy: present and not 0
Truthy(p) == "file_size" \in DOMAIN p /\ p.file_size # 0

\* p.file_size || 0
SizeOrZero(p) == IF Truthy(p) THEN p.file_size ELSE 0

TakesVariantLast(acc, p) == acc.tmp = <<>> \/ (Truthy(p) /\ p.file_size >= acc.sz)

\* part_000 line 88
TakesVariant(acc, p) == acc.tmp = <<>> \/ (Truthy(p) /\ p.file_size > acc.sz)

\* the loop over message.photo, lines 85-92
RECURSIVE PhotoLoop(_, _)
PhotoLoop(acc, photo) ==
    IF photo = <<>> THEN acc
    ELSE PhotoLoop(IF TakesVariant(acc, Head(photo))
                   THEN [tmp |-> <<Head(photo)>>, sz |-> SizeOrZero(Head(photo))]
                   ELSE acc,
                   Tail(photo))

\* the loop over the other five keys, lines 102-111
RECURSIVE KindLoop(_, _)
KindLoop(message, keys) ==
    IF keys = <<>> THEN <<>>
    ELSE IF Head(keys) \in DOMAIN message
    THEN <<message[Head(keys)] @@ [file_type |-> Head(keys)]>>
    ELSE KindLoop(message, Tail(keys))

getFileIds(message) ==
    LET tmp == IF "photo" \in DOMAIN message
               THEN PhotoLoop([tmp |-> <<>>, sz |-> 0], message.photo).tmp
               ELSE <<>>
    IN  IF tmp # <<>>
        THEN <<tmp[1] @@ [file_type |-> "photo"]>>
        ELSE KindLoop(message, OtherKinds)

(***************************************************************************)
(* escape, the tagged-template function of lines 137-151.                  *)
(***************************************************************************)
Amp == <<"&","a","m","p",";">>
Lt == <<"&","l","t",";">>
Gt == <<"&","g","t",";">>
Undefined == <<"u","n","d","e","f","i","n","e","d">>

\* String.prototype.replace( /c/g, by )
RECURSIVE replace(_, _, _)
replace(s, c, by) ==
    IF s = <<>> THEN <<>>
    ELSE (IF Head(s) = c THEN by ELSE <<Head(s)>>) \o replace(Tail(s), c, by)

EscapeValueAmpLast(v) == replace(replace(replace(v, "<", Lt), ">", Gt), "&", Amp)

\* lines 145-148
EscapeValue(v) == replace(replace(replace(v, "&", Amp), "<", Lt), ">", Gt)

RECURSIVE EscapeLoop(_, _, _)
EscapeLoop(result, cFormats, cPatterns) ==
    IF cPatterns = <<>> THEN result \o Concat(cFormats)
    ELSE EscapeLoop(result
                      \o (IF cFormats = <<>> THEN Undefined ELSE Head(cFormats))
                      \o EscapeValue(Head(cPatterns)),
                    IF cFormats = <<>> THEN <<>> ELSE Tail(cFormats),
                    Tail(cPatterns))

escape(formats, patterns) == EscapeLoop(<<>>, formats, patterns)

(***************************************************************************)
(* Literal texts of the handlers.                                          *)
(***************************************************************************)
T_File == <<"F","i","l","e"," ">>
T_FileNoSpace == <<"F","i","l","e">>
T_IsExist == <<" ","i","s"," ","e","x","i","s","t",".">>
T_IsntExist == <<" ","i","s","n","'","t"," ","e","x","i","s","t",".">>
T_FailResolve == <<"F","a","i","l"," ","t","o"," ","r","e","s","o","l","v","e"," ","f","i","l","e",".">>
T_FailResolveFile == <<"F","a","i","l"," ","t","o"," ","r","e","s","o","l","v","e"," ","f","i","l","e"," ">>
T_SpaceDot == <<" ",".">>
T_Internal == <<"I","n","t","e","r","n","a","l"," ","e","r","r","o","r",".">>
T_Delete == <<"D","e","l","e","t","e"," ">>
T_Success == <<" ","s","u","c","c","e","s","s",".">>
T_Removed == <<" ","h","a","s"," ","b","e","e","n"," ","r","e","m","o","v","e","d",".">>
T_From == <<"f","r","o","m",":"," ">>
T_To == <<"t","o",":"," ">>
T_FileCode == <<"f","i","l","e",":"," ","<","c","o","d","e",">">>
T_Unique == <<"<","/","c","o","d","e",">"," ","(","u","n","i","q","u","e",":"," ","<","c","o","d","e",">">>
T_CodeEnd == <<"<","/","c","o","d","e",">",")">>
T_Url == <<"u","r","l",":"," ">>
T_Files == <<"/","f","i","l","e","s","/">>
T_Raw == <<"r","a","w",":"," ","<","c","o","d","e",">">>
T_RawEnd == <<"<","/","c","o","d","e",">">>

\* String( number ), for an integer
RECURSIVE NatToString(_)
NatToString(k) ==
    IF k < 10 THEN <<Digits[k + 1]>>
    ELSE NatToString(k \div 10) \o <<Digits[(k % 10) + 1]>>

String(k) == IF k < 0 THEN <<"-">> \o NatToString(0 - k) ELSE NatToString(k)

Quoted(str) == <<"\"">> \o str \o <<"\"">>

KindText ==
    [photo |-> <<"p","h","o","t","o">>, sticker |-> <<"s","t","i","c","k","e","r">>,
     audio |-> <<"a","u","d","i","o">>, voice |-> <<"v","o","i","c","e">>,
     video |-> <<"v","i","d","e","o">>,
     document |-> <<"d","o","c","u","m","e","n","t">>]

\* JSON.stringify( file ), of the properties the model keeps
stringify(file) ==
    <<"{">> \o Quoted(<<"f","i","l","e","_","t","y","p","e">>) \o <<":">>
            \o Quoted(KindText[file.file_type])
    \o <<",">> \o Quoted(<<"f","i","l","e","_","i","d">>) \o <<":">>
            \o Quoted(file.file_id)
    \o <<",">> \o Quoted(<<"f","i","l","e","_","u","n","i","q","u","e","_","i","d">>)
            \o <<":">> \o Quoted(file.file_unique_id)
    \o (IF "file_size" \in DOMAIN file
        THEN <<",">> \o Quoted(<<"f","i","l","e","_","s","i","z","e">>) \o <<":">>
                \o String(file.file_size)
        ELSE <<>>)
    \o <<"}">>

(***************************************************************************)
(* The environment of the bot.                                             *)
(***************************************************************************)
Labels == {"onMessage", "onAction:exist", "onAction:remove"}

Slots == 1..2

\* the chats messages come from, and the one user who writes and presses
ChatIds == {2, 10, 11}
UserId == 7
\* message.chat.id of the broadcasts sent to INFO_CHANNEL
InfoChannelId == -100
\* DOMAIN, with its scheme
Domain == <<"h","t","t","p","s",":","/","/","d",".","i","o">>

\* values of ENABLE_GROUPS: one to MaxGroups integers, comma-separated
GroupTokens == {<<"1","0">>, <<"1","1">>}
EnableGroupsValues ==
    {join(ts, ",") : ts \in UNION {[1..k -> GroupTokens] : k \in 1..MaxGroups}}

\* inbound messages: text only, and a photo with two variants
\* (message_id is the id of the message in its chat)
Messages ==
    { [message_id |-> 1, text |-> <<"h","i">>],
      [message_id |-> 1,
       photo |-> << [file_id |-> <<"p","1">>, file_unique_id |-> <<"u","1">>,
                     file_size |-> 1],
                    [file_id |-> <<"p","2">>, file_unique_id |-> <<"u","2">>,
                     file_size |-> 2] >>] }

\* what bot.telegram.getFileLink may resolve to, and what randomInt may draw
HrefJpg == <<"h","t","t","p","s",":","/","/","a",".","i","o","/","f","/","f","i","l","e","_","0",".","j","p","g">>
HrefMp4 == <<"h","t","t","p","s",":","/","/","a",".","i","o","/","f","/","f","i","l","e","_","1",".","M","P","4">>
Hrefs == {HrefJpg, HrefMp4}
RandomInts == {[hi |-> 703710, lo |-> 240]}


(***************************************************************************)
(* logger.mts: createThread.                                               *)
(***************************************************************************)
NextThreadIdStale(ids, threadName) ==
    IF threadName \in DOMAIN ids THEN ids[threadName] ELSE 1

\* line 59
NextThreadId(ids, threadName) ==
    (IF threadName \in DOMAIN ids THEN ids[threadName] ELSE 0) + 1

\* lines 58-62: the Map after the call, and the thread's name
createThread(threadName) ==
    LET id == NextThreadId(lastThreadIds, threadName)
    IN  /\ lastThreadIds' = (threadName :> id) @@ lastThreadIds
        /\ issued' = [issued EXCEPT ![threadName] = Append(@, id)]

\* handler invocations so far: each creates one thread
Calls == Len(issued["onMessage"]) + Len(issued["onAction:exist"])
             + Len(issued["onAction:remove"])

(***************************************************************************)
(* What has happened to each file name: stored by a download (again: more  *)
(* than once), found by a remove handler's probe, removed with a success   *)
(* acknowledgment (twice: more than once), rm failed other than not-found. *)
(* The handlers keep no such record; SpecHistory keeps it beside them.     *)
(***************************************************************************)
NoHistory ==
    [stored |-> {}, again |-> {}, probed |-> {}, acked |-> {}, twice |-> {},
     faulted |-> {}]

Stored(file) ==
    [hist EXCEPT !.stored = @ \cup {file},
                 !.again = IF file \in hist.stored THEN @ \cup {file} ELSE @]

Probed(file, code) ==
    IF code = "ok" THEN [hist EXCEPT !.probed = @ \cup {file}] ELSE hist

Removed(file, code) ==
    IF code = "ok"
    THEN [hist EXCEPT !.acked = @ \cup {file},
                      !.twice = IF file \in hist.acked THEN @ \cup {file} ELSE @]
    ELSE IF code = "ENOENT" THEN hist
    ELSE [hist EXCEPT !.faulted = @ \cup {file}]

(***************************************************************************)
(* Handler invocations.                                                    *)
(***************************************************************************)
Idle ==
    [kind |-> "idle", pc |-> "done", outcome |-> "", chat |-> 0, from |-> 0,
     msg |-> <<>>, file |-> <<>>, fileName |-> <<>>, cbMessage |-> <<>>,
     probe |-> "none", rm |-> "none", isExist |-> TRUE, calls |-> <<>>,
     ack |-> <<>>]

\* a new invocation runs in the lowest slot that holds none
FreeSlot(h) == hs[h].pc = "done" /\ \A g \in Slots : g < h => hs[g].pc # "done"

\* the invocation in slot h awaits / returns, its state being inv
Await(h, inv) == hs' = [hs EXCEPT ![h] = inv] /\ returned' = Idle
Return(h, inv) == hs' = [hs EXCEPT ![h] = Idle] /\ returned' = [inv EXCEPT !.pc = "done"]

\* the platform: messages of the bot that exist, by chat and message id
NewPost(chat, id, text, data) ==
    [chat |-> chat, message_id |-> id, date |-> now \div 1000, text |-> text,
     data |-> data]

DeleteMessage(ps, chat_id, message_id) ==
    {p \in ps : ~(p.chat = chat_id /\ p.message_id = message_id)}

EditMessageText(ps, chat_id, message_id, text) ==
    {IF p.chat = chat_id /\ p.message_id = message_id
     THEN [p EXCEPT !.text = text, !.data = <<>>] ELSE p : p \in ps}

\* fs.promises.access / fs.promises.rm on path.join( savePath, file ): the
\* error code, "ok" for none; fault is an I/O or permission failure
Access(files, file, fault) ==
    IF fault THEN "EACCES" ELSE IF file \in files THEN "ok" ELSE "ENOENT"

RmForce(files, file, fault) == IF fault THEN "EACCES" ELSE "ok"

\* fs.promises.rm( path ), line 266: without force, a missing file is an error
Rm(files, file, fault) == Access(files, file, fault)

IsNotFoundAny(code) == code # "ok"

\* line 254: ( error as NodeJS.ErrnoException ).code === 'ENOENT'
IsNotFound(code) == code = "ENOENT"

(***************************************************************************)
(* bot.on( 'message' ), lines 153-209, with processFile, lines 116-135.    *)
(***************************************************************************)
\* lines 182-188
NotificationText(from, chat, file, fileName) ==
    join(<< escape(<<T_From, <<>>>>, <<String(from)>>),
            escape(<<T_To, <<>>>>, <<String(chat)>>),
            escape(<<T_FileCode, T_Unique, T_CodeEnd>>,
                   <<file.file_id, file.file_unique_id>>),
            escape(<<T_Url, T_Files, <<>>>>, <<Domain, fileName>>),
            escape(<<T_Raw, T_RawEnd>>, <<stringify(file)>>) >>, "\n")

SendCall(chat, text, data, replyTo) ==
    [fn |-> "sendMessage", chat_id |-> chat, text |-> text, data |-> data,
     reply_to_message_id |-> replyTo]

\* lines 154-166 and the call of processFile up to its first await
OnMessage(h, chat, message) ==
    /\ FreeSlot(h)
    /\ Calls < MaxCalls
    /\ Len(issued["onMessage"]) < MaxMessages
    /\ createThread("onMessage")
    /\ LET file == getFileIds(message)
           inv == [Idle EXCEPT !.kind = "message", !.chat = chat, !.from = UserId,
                               !.msg = <<message>>]
       IN  IF ~includes(enableGroups, chat)
           THEN Return(h, [inv EXCEPT !.outcome = "not in enableGroups, skip."])
           ELSE IF file = <<>>
           THEN Return(h, [inv EXCEPT !.outcome = "not file found, skip."])
           ELSE Await(h, [inv EXCEPT !.pc = "getFileLink", !.file = file,
                                     !.calls = <<[fn |-> "getFileLink",
                                                  file_id |-> file[1].file_id]>>])
    /\ UNCHANGED <<ENABLE_GROUPS, enableGroups, disk, posts, nextMessageId, now,
                   arg, ret, hist>>

\* thread.error( util.inspect( error ) ), lines 172, 230, 258, 270
ErrorCall == [fn |-> "thread.error"]

FailToResolveAndBroadcast(h, calls) ==
    /\ Return(h, [hs[h] EXCEPT !.outcome = "Fail to resolve file.",
                     !.calls = calls \o
                        << ErrorCall,
                           SendCall(hs[h].chat, T_FailResolve, <<>>,
                                    hs[h].msg[1].message_id),
                           SendCall(InfoChannelId, T_FailResolve,
                                    RemovePrefix \o hs[h].fileName, 0) >>])
    /\ posts' = posts \cup
          { NewPost(hs[h].chat, nextMessageId, T_FailResolve, <<>>),
            NewPost(InfoChannelId, nextMessageId + 1, T_FailResolve,
                    RemovePrefix \o hs[h].fileName) }
    /\ nextMessageId' = nextMessageId + 2

\* lines 171-178: the catch block of the message handler
FailToResolve(h, calls) ==
    /\ Return(h, [hs[h] EXCEPT !.outcome = "Fail to resolve file.",
                     !.calls = calls \o
                        << ErrorCall,
                           SendCall(hs[h].chat, T_FailResolve, <<>>,
                                    hs[h].msg[1].message_id) >>])
    /\ posts' = posts \cup {NewPost(hs[h].chat, nextMessageId, T_FailResolve, <<>>)}
    /\ nextMessageId' = nextMessageId + 1

\* lines 117-121: getFileLink resolves, the file name is drawn
ProcessFileGetFileLink(h, href, n) ==
    /\ hs[h].kind = "message" /\ hs[h].pc = "getFileLink"
    /\ InRandomRange(n)
    /\ Await(h, [hs[h] EXCEPT !.pc = "fetch", !.fileName = FileName(n, href)])
    /\ UNCHANGED <<ENABLE_GROUPS, enableGroups, disk, lastThreadIds, issued, posts,
                   nextMessageId, now, arg, ret, hist>>

\* line 117 throws
ProcessFileGetFileLinkFails(h) ==
    /\ hs[h].kind = "message" /\ hs[h].pc = "getFileLink"
    /\ FailToResolve(h, hs[h].calls)
    /\ UNCHANGED <<ENABLE_GROUPS, enableGroups, disk, lastThreadIds, issued, now,
                   arg, ret, hist>>

CallbackDataBare(verb, fileName) == verb

\* lines 196 and 205: 'exist:' + fileName, 'remove:' + fileName
CallbackData(verb, fileName) == verb \o fileName

\* lines 123-134 succeed, then lines 180-208: the reply and the broadcast
ProcessFileStream(h) ==
    /\ hs[h].kind = "message" /\ hs[h].pc = "fetch"
    /\ LET fileName == hs[h].fileName
           message == NotificationText(hs[h].from, hs[h].chat, hs[h].file[1], fileName)
       IN  /\ disk' = disk \cup {fileName}
           /\ Return(h, [hs[h] EXCEPT !.outcome = "sent",
                       !.calls = @ \o
                          << [fn |-> "createWriteStream", path |-> fileName],
                             SendCall(hs[h].chat, message,
                                      CallbackData(ExistPrefix, fileName),
                                      hs[h].msg[1].message_id),
                             SendCall(InfoChannelId, message,
                                      CallbackData(RemovePrefix, fileName), 0) >>])
           /\ posts' = posts \cup
                 { NewPost(hs[h].chat, nextMessageId, message,
                           CallbackData(ExistPrefix, fileName)),
                   NewPost(InfoChannelId, nextMessageId + 1, message,
                           CallbackData(RemovePrefix, fileName)) }
           /\ nextMessageId' = nextMessageId + 2
    /\ UNCHANGED <<ENABLE_GROUPS, enableGroups, lastThreadIds, issued, now, arg, ret>>

\* lines 123-131 throw: before the write stream was created, or after (the
\* truncated file stays on disk)
ProcessFileStreamFails(h, created) ==
    /\ hs[h].kind = "message" /\ hs[h].pc = "fetch"
    /\ disk' = IF created THEN disk \cup {hs[h].fileName} ELSE disk
    /\ FailToResolve(h, IF created
                        THEN Append(hs[h].calls, [fn |-> "createWriteStream",
                                                  path |-> hs[h].fileName])
                        ELSE hs[h].calls)
    /\ UNCHANGED <<ENABLE_GROUPS, enableGroups, lastThreadIds, issued, now, arg, ret>>

(***************************************************************************)
(* bot.action( exist ), lines 211-235.                                     *)
(***************************************************************************)
Answer(text, cache_time) == [text |-> text, cache_time |-> cache_time]

ExistAnswerSwapped(code, file) ==
    IF code = "ok" THEN Answer(T_File \o file \o T_IsntExist, 0)
    ELSE IF code = "ENOENT" THEN Answer(T_File \o file \o T_IsExist, 0)
    ELSE Answer(T_FailResolve, 0)

\* lines 220-222, 226-228, 231-233: the acknowledgment, by the probe's result
ExistAnswer(code, file) ==
    IF code = "ok" THEN Answer(T_File \o file \o T_IsExist, 0)
    ELSE IF code = "ENOENT" THEN Answer(T_File \o file \o T_IsntExist, 0)
    ELSE Answer(T_FailResolve, 0)

\* lines 212-218: the pattern matched, up to the await of access
OnActionExist(h, post) ==
    /\ FreeSlot(h)
    /\ post \in posts
    /\ Route(post.data).action = "exist"
    /\ Calls < MaxCalls
    /\ createThread("onAction:exist")
    /\ Await(h, [Idle EXCEPT !.kind = "exist", !.pc = "access", !.from = UserId,
                             !.fileName = Route(post.data).file,
                             !.cbMessage = <<post>>])
    /\ UNCHANGED <<ENABLE_GROUPS, enableGroups, disk, posts, nextMessageId, now,
                   arg, ret, hist>>

\* lines 218-234: access settles and the handler answers
ExistAccess(h, fault) ==
    /\ hs[h].kind = "exist" /\ hs[h].pc = "access"
    /\ LET code == Access(disk, hs[h].fileName, fault)
       IN  Return(h, [hs[h] EXCEPT !.probe = code,
                         !.calls = Append(@, [fn |-> "access", path |-> hs[h].fileName,
                                              mode |-> "R_OK"])
                                     \o (IF code \in {"ok", "ENOENT"} THEN <<>>
                                         ELSE <<ErrorCall>>),
                         !.ack = <<ExistAnswer(code, hs[h].fileName)>>])
    /\ UNCHANGED <<ENABLE_GROUPS, enableGroups, disk, lastThreadIds, issued, posts,
                   nextMessageId, now, arg, ret, hist>>

(***************************************************************************)
(* bot.action( remove ), lines 237-292.                                    *)
(***************************************************************************)
TooOldMs == 48 * 3600 * 1000

\* line 275
IsTooOld(message, time) == message.date * 1000 < time - TooOldMs

RemoveAnswerSwapped(isExist, file) ==
    [text |-> IF isExist THEN T_FileNoSpace \o file \o T_Removed
              ELSE T_Delete \o file \o T_Success,
     show_alert |-> TRUE, cache_time |-> 3600]

\* lines 287-290
RemoveAnswer(isExist, file) ==
    [text |-> IF isExist THEN T_Delete \o file \o T_Success
              ELSE T_FileNoSpace \o file \o T_Removed,
     show_alert |-> TRUE, cache_time |-> 3600]

\* lines 277-282: editMessageText( chatId, messageId, inlineMessageId, text ) is
\* called with the presser's id as chatId and the message's chat id as messageId
EditCall(from, message, file) ==
    [fn |-> "editMessageText", chat_id |-> from, message_id |-> message.chat,
     text |-> T_File \o file \o T_Removed]

\* line 285
DeleteCall(message) ==
    [fn |-> "deleteMessage", chat_id |-> message.chat,
     message_id |-> message.message_id]

\* lines 274-291: edit or delete the message, and answer
Finish(h, isExist, code, calls) ==
    LET message == hs[h].cbMessage[1]
        file == hs[h].fileName
        call == IF IsTooOld(message, now)
                THEN EditCall(hs[h].from, message, file)
                ELSE DeleteCall(message)
    IN  /\ Return(h, [hs[h] EXCEPT !.isExist = isExist, !.probe = code,
                         !.rm = IF isExist THEN "ok" ELSE "none",
                         !.outcome = IF isExist THEN "file is removed."
                                     ELSE "file has been removed.",
                         !.calls = calls \o <<call>>,
                         !.ack = <<RemoveAnswer(isExist, file)>>])
        /\ posts' = IF call.fn = "editMessageText"
                    THEN EditMessageText(posts, call.chat_id, call.message_id, call.text)
                    ELSE DeleteMessage(posts, call.chat_id, call.message_id)

\* lines 238-252: the pattern matched, up to the await of access; the callback
\* query may come without its message
OnActionRemove(h, post, hasMessage) ==
    /\ FreeSlot(h)
    /\ post \in posts
    /\ Route(post.data).action = "remove"
    /\ Calls < MaxCalls
    /\ createThread("onAction:remove")
    /\ LET inv == [Idle EXCEPT !.kind = "remove", !.from = UserId,
                               !.fileName = Route(post.data).file]
       IN  IF hasMessage
           THEN Await(h, [inv EXCEPT !.pc = "access", !.cbMessage = <<post>>])
           ELSE Return(h, [inv EXCEPT !.outcome = "message is null.",
                                      !.ack = <<Answer(T_Internal, 0)>>])
    /\ UNCHANGED <<ENABLE_GROUPS, enableGroups, disk, posts, nextMessageId, now,
                   arg, ret, hist>>

\* lines 251-264: access settles
RemoveAccess(h, fault) ==
    /\ hs[h].kind = "remove" /\ hs[h].pc = "access"
    /\ LET file == hs[h].fileName
           code == Access(disk, file, fault)
           calls == Append(hs[h].calls, [fn |-> "access", path |-> file,
                                         mode |-> "R_OK | W_OK"])
       IN  IF code = "ok"
           THEN /\ Await(h, [hs[h] EXCEPT !.pc = "rm", !.probe = code,
                                          !.calls = calls])
                /\ posts' = posts
           ELSE IF IsNotFound(code)
           THEN Finish(h, FALSE, code, calls)
           ELSE /\ Return(h, [hs[h] EXCEPT !.probe = code,
                                 !.outcome = "access failed",
                                 !.calls = Append(calls, ErrorCall),
                                 !.ack = <<Answer(T_FailResolveFile \o file
                                                  \o T_SpaceDot, 0)>>])
                /\ posts' = posts
    /\ UNCHANGED <<ENABLE_GROUPS, enableGroups, disk, lastThreadIds, issued,
                   nextMessageId, now, arg, ret>>

\* lines 265-273 and on: rm settles (rm fails as access does: not-found when the
\* file is gone, or a fault)
RemoveRm(h, fault) ==
    /\ hs[h].kind = "remove" /\ hs[h].pc = "rm"
    /\ LET file == hs[h].fileName
           code == Rm(disk, file, fault)
           calls == Append(hs[h].calls, [fn |-> "rm", path |-> file])
       IN  IF code = "ok"
           THEN /\ disk' = disk \ {file}
                /\ Finish(h, TRUE, hs[h].probe, calls)
           ELSE /\ disk' = disk
                /\ Return(h, [hs[h] EXCEPT !.outcome = "rm failed", !.rm = code,
                                 !.calls = Append(calls, ErrorCall),
                                 !.ack = <<[text |-> T_FailResolveFile \o file
                                                      \o T_SpaceDot]>>])
                /\ posts' = posts
    /\ UNCHANGED <<ENABLE_GROUPS, enableGroups, lastThreadIds, issued,
                   nextMessageId, now, arg, ret>>

\* time passes: 48 hours, or a millisecond more.  The code reads the clock only
\* to take the age of a posted message (line 275), so time is advanced once a
\* message has been posted.
TickSteps == {TooOldMs, TooOldMs + 1}

Tick(ms) ==
    /\ now < MaxTicks * TooOldMs
    /\ posts # {}
    /\ now' = now + ms
    /\ returned' = Idle
    /\ UNCHANGED <<ENABLE_GROUPS, enableGroups, disk, lastThreadIds, issued, hs,
                   posts, nextMessageId, arg, ret, hist>>

(***************************************************************************)
(* The bot: the state after start-up, and its steps.                       *)
(***************************************************************************)
BotStart(value) ==
    /\ ENABLE_GROUPS = value
    /\ enableGroups = ParseEnableGroups(value)
    /\ disk = {}
    /\ lastThreadIds = [l \in {} |-> 0]
    /\ issued = [l \in Labels |-> <<>>]
    /\ hs = [h \in Slots |-> Idle]
    /\ returned = Idle
    /\ posts = {}
    /\ nextMessageId = 2
    /\ now = 0
    /\ hist = NoHistory

\* the bot started with ENABLE_GROUPS=10
Init ==
    /\ BotStart(<<"1","0">>)
    /\ arg = <<>>
    /\ ret = <<>>

Next ==
    \/ \E h \in Slots, chat \in ChatIds, message \in Messages :
           OnMessage(h, chat, message)
    \/ \E h \in Slots, href \in Hrefs, n \in RandomInts :
           ProcessFileGetFileLink(h, href, n)
    \/ \E h \in Slots : ProcessFileGetFileLinkFails(h)
    \/ \E h \in Slots : ProcessFileStream(h) /\ UNCHANGED hist
    \/ \E h \in Slots, created \in BOOLEAN :
           ProcessFileStreamFails(h, created) /\ UNCHANGED hist
    \/ \E h \in Slots, post \in posts : OnActionExist(h, post)
    \/ \E h \in Slots, fault \in BOOLEAN : ExistAccess(h, fault)
    \/ \E h \in Slots, post \in posts, hasMessage \in BOOLEAN :
           OnActionRemove(h, post, hasMessage)
    \/ \E h \in Slots, fault \in BOOLEAN : RemoveAccess(h, fault) /\ UNCHANGED hist
    \/ \E h \in Slots, fault \in BOOLEAN : RemoveRm(h, fault) /\ UNCHANGED hist
    \/ \E ms \in TickSteps : Tick(ms)

Spec == Init /\ [][Next]_vars

(***************************************************************************)
(* The message handler and the remove handler, with the record of what has *)
(* happened to each file name.  The exist handler is left out: it changes   *)
(* neither the files nor the messages.                                     *)
(***************************************************************************)
NextHistory ==
    \/ \E h \in Slots, chat \in ChatIds, message \in Messages :
           OnMessage(h, chat, message)
    \/ \E h \in Slots, href \in Hrefs, n \in RandomInts :
           ProcessFileGetFileLink(h, href, n)
    \/ \E h \in Slots : ProcessFileGetFileLinkFails(h)
    \/ \E h \in Slots :
           ProcessFileStream(h) /\ hist' = Stored(hs[h].fileName)
    \/ \E h \in Slots, created \in BOOLEAN :
           /\ ProcessFileStreamFails(h, created)
           /\ hist' = IF created THEN Stored(hs[h].fileName) ELSE hist
    \/ \E h \in Slots, post \in posts, hasMessage \in BOOLEAN :
           OnActionRemove(h, post, hasMessage)
    \/ \E h \in Slots, fault \in BOOLEAN :
           /\ RemoveAccess(h, fault)
           /\ hist' = Probed(hs[h].fileName, Access(disk, hs[h].fileName, fault))
    \/ \E h \in Slots, fault \in BOOLEAN :
           /\ RemoveRm(h, fault)
           /\ hist' = Removed(hs[h].fileName, Rm(disk, hs[h].fileName, fault))
    \/ \E ms \in TickSteps : Tick(ms)

SpecHistory == Init /\ [][NextHistory]_vars

(***************************************************************************)
(* The message handler alone, under every value of ENABLE_GROUPS.          *)
(***************************************************************************)
InitAllow ==
    /\ \E value \in EnableGroupsValues : BotStart(value)
    /\ arg = <<>>
    /\ ret = <<>>

NextAllow ==
    \/ \E h \in Slots, chat \in ChatIds, message \in Messages :
           OnMessage(h, chat, message)
    \/ \E h \in Slots, href \in Hrefs, n \in RandomInts :
           ProcessFileGetFileLink(h, href, n)
    \/ \E h \in Slots : ProcessFileGetFileLinkFails(h)
    \/ \E h \in Slots : ProcessFileStream(h) /\ UNCHANGED hist
    \/ \E h \in Slots, created \in BOOLEAN :
           ProcessFileStreamFails(h, created) /\ UNCHANGED hist

SpecAllow == InitAllow /\ [][NextAllow]_vars

(***************************************************************************)
(* The pure functions, each applied to inputs drawn at the start.          *)
(***************************************************************************)
Quiet == BotStart(<<"1","0">>)

BotUnchanged ==
    UNCHANGED <<ENABLE_GROUPS, enableGroups, disk, lastThreadIds, issued, hs,
                returned, posts, nextMessageId, now, hist>>

\* processFile's file name, for a resolved URL and a random draw
UrlStem == <<"h","t","t","p","s",":","/","/","a",".","i","o","/","f","/","f","i","l","e","_","0">>
TailChars == {".", "/", "J", "g", "4"}
FileNameInts ==
    {[hi |-> 65536, lo |-> 0], [hi |-> 703710, lo |-> 240],
     [hi |-> 1048575, lo |-> 65535]}

InitFileName ==
    /\ Quiet
    /\ arg \in [n : FileNameInts, href : {UrlStem \o t : t \in SeqsUpTo(TailChars, MaxTail)}]
    /\ ret = <<>>

ApplyFileName ==
    /\ ret = <<>>
    /\ InRandomRange(arg.n)
    /\ ret' = <<FileName(arg.n, arg.href)>>
    /\ arg' = arg
    /\ BotUnchanged

SpecFileName == InitFileName /\ [][ApplyFileName]_vars

\* getFileIds, for a message with one to MaxPhotos photo variants, each with a
\* declared size of 0..MaxSize or with none (-1 here); variant i has file_id p<i>
Variant(i, size) ==
    IF size = -1
    THEN [file_id |-> <<"p", Digits[i + 1]>>, file_unique_id |-> <<"u", Digits[i + 1]>>]
    ELSE [file_id |-> <<"p", Digits[i + 1]>>, file_unique_id |-> <<"u", Digits[i + 1]>>,
          file_size |-> size]

PhotoLists ==
    UNION {{[i \in 1..k |-> Variant(i, sizes[i])] : sizes \in [1..k -> -1..MaxSize]} :
           k \in 1..MaxPhotos}

InitPhoto ==
    /\ Quiet
    /\ arg \in {[message_id |-> 1, photo |-> photo] : photo \in PhotoLists}
    /\ ret = <<>>

ApplyGetFileIds ==
    /\ ret = <<>>
    /\ ret' = <<getFileIds(arg)>>
    /\ arg' = arg
    /\ BotUnchanged

SpecPhoto == InitPhoto /\ [][ApplyGetFileIds]_vars

\* getFileIds, for a message with any of the six kinds of attachment: photo
\* lists of no, one and two variants, and one file per other kind
KindFile(k) ==
    [file_id |-> <<"f">> \o KindText[k], file_unique_id |-> <<"u">> \o KindText[k]]

KindPhotos == {<<>>, <<Variant(1, 1)>>, <<Variant(1, 2), Variant(2, 1)>>}

KindMessages ==
    {[k \in S \cup {"message_id"} |->
          IF k = "message_id" THEN 1 ELSE IF k = "photo" THEN photo ELSE KindFile(k)] :
       S \in SUBSET (Range(OtherKinds) \cup {"photo"}), photo \in KindPhotos}

InitKinds ==
    /\ Quiet
    /\ arg \in KindMessages
    /\ ret = <<>>

SpecKinds == InitKinds /\ [][ApplyGetFileIds]_vars

\* escape, for a template with one interpolated value and one with two
EscChars == {"&", "<", ">", "b", ";"}
Template1 == << <<"<","c",">">>, <<"<","/","c",">","&">> >>
Template2 == << <<"a",":"," ">>, <<" ","&"," ">>, <<>> >>

InitEscape ==
    /\ Quiet
    /\ arg \in {[formats |-> Template1, patterns |-> <<v>>] :
                    v \in SeqsUpTo(EscChars, MaxLen)}
               \cup
               {[formats |-> Template2, patterns |-> <<v, w>>] :
                    v \in SeqsUpTo(EscChars, MaxLen), w \in SeqsUpTo(EscChars, 1)}
    /\ ret = <<>>

ApplyEscape ==
    /\ ret = <<>>
    /\ ret' = <<escape(arg.formats, arg.patterns)>>
    /\ arg' = arg
    /\ BotUnchanged

SpecEscape == InitEscape /\ [][ApplyEscape]_vars

(***************************************************************************)
(* Start-up: the module-level statements of part_000, in their order.  The  *)
(* environment is arg, the process is ret.                                 *)
(***************************************************************************)
\* the variables read with getEnv( name ), in the order of lines 51-57
Required == <<"BOT_TOKEN", "FILE_SAVE_PATH", "DOMAIN", "ENABLE_GROUPS", "INFO_CHANNEL">>
EnvNames == Range(Required) \cup {"PORT"}

\* process.env[ name ]: <<>> when the variable is not set, <<string>> when it
\* is (not set, set to the empty string, set to 80)
EnvValues == {<<>>, << <<>> >>, << <<"8","0">> >>}

getEnvDefined(env, name, nullOk) ==
    LET find == env[name]
    IN  IF find # <<>> THEN [status |-> <<>>, value |-> find]
        ELSE IF nullOk THEN [status |-> <<>>, value |-> <<>>]
        ELSE [status |-> <<1>>, value |-> <<>>]

\* lines 40-50: the value, null (value <<>>), or process.exit( 1 ) (status <<1>>)
getEnv(env, name, nullOk) ==
    LET find == env[name]
    IN  IF find # <<>> /\ find[1] # <<>> THEN [status |-> <<>>, value |-> find]
        ELSE IF nullOk THEN [status |-> <<>>, value |-> <<>>]
        ELSE [status |-> <<1>>, value |-> <<>>]

\* the process when part_000 starts to run: read counts the required variables
\* read so far, status is the exit status once the process has exited
Started ==
    [pc |-> "getEnv", read |-> 0, status |-> <<>>, handlers |-> FALSE,
     webhook |-> FALSE, listening |-> FALSE, port |-> <<>>]

InitStartup ==
    /\ Quiet
    /\ arg \in [EnvNames -> EnvValues]
    /\ ret = Started

\* lines 51-57: the next required variable is read
StartupGetEnv ==
    /\ ret.pc = "getEnv"
    /\ LET got == getEnv(arg, Required[ret.read + 1], FALSE)
       IN  ret' = IF got.status # <<>>
                  THEN [ret EXCEPT !.pc = "exited", !.status = got.status]
                  ELSE [ret EXCEPT !.read = @ + 1,
                                   !.pc = IF ret.read + 1 = Len(Required)
                                          THEN "handlers" ELSE "getEnv"]
    /\ arg' = arg
    /\ BotUnchanged

\* lines 153, 211, 237, 294: bot.on, bot.action twice, bot.catch
RegisterHandlers ==
    /\ ret.pc = "handlers"
    /\ ret' = [ret EXCEPT !.pc = "webhook", !.handlers = TRUE]
    /\ arg' = arg
    /\ BotUnchanged

\* lines 298-302
CreateWebhook ==
    /\ ret.pc = "webhook"
    /\ ret' = [ret EXCEPT !.pc = "listen", !.webhook = TRUE]
    /\ arg' = arg
    /\ BotUnchanged

\* line 304: app.listen( Number.parseInt( getEnv( 'PORT', true ) || '0', 10 ) )
Listen ==
    /\ ret.pc = "listen"
    /\ LET got == getEnv(arg, "PORT", TRUE)
       IN  ret' = IF got.status # <<>>
                  THEN [ret EXCEPT !.pc = "exited", !.status = got.status]
                  ELSE [ret EXCEPT !.pc = "running", !.listening = TRUE,
                                   !.port = parseInt(IF got.value = <<>> THEN <<"0">>
                                                     ELSE got.value[1], 10)]
    /\ arg' = arg
    /\ BotUnchanged

NextStartup ==
    \/ StartupGetEnv
    \/ RegisterHandlers
    \/ CreateWebhook
    \/ Listen

SpecStartup == InitStartup /\ [][NextStartup]_vars

(***************************************************************************)
(* logger.mts: the loggers.  The module is evaluated once, at start-up;    *)
(* arg holds what it has built, ret the last line written to the console.  *)
(***************************************************************************)
Levels == {"debug", "info", "warn", "error"}

\* level.toUpperCase()
LevelText ==
    [debug |-> <<"D","E","B","U","G">>, info |-> <<"I","N","F","O">>,
     warn |-> <<"W","A","R","N">>, error |-> <<"E","R","R","O","R">>]

LabelText ==
    ("onMessage" :> <<"o","n","M","e","s","s","a","g","e">>)
    @@ ("onAction:exist" :> <<"o","n","A","c","t","i","o","n",":","e","x","i","s","t">>)
    @@ ("onAction:remove" :> <<"o","n","A","c","t","i","o","n",":","r","e","m","o","v","e">>)

MainName == <<"m","a","i","n">>

\* lines 23-33: the logger of a level; its patterns array, with the timestamp,
\* is built when internalLog is called
internalLog(level, time) == [ts |-> time, level |-> LevelText[level]]

\* lines 35-45, evaluated when the module is loaded
baseLogger(time) == [level \in Levels |-> internalLog(level, time)]

\* line 62: util.format( '%s:%d', threadName, id )
ThreadName(threadName, id) == LabelText[threadName] \o <<":">> \o String(id)

\* lines 11-19 through getLogger and internalLog: the line console[ level ]
\* gets, '[%s] [%s] [%s] %s' filled in; at is the time of the call, which the
\* line itself does not carry
Line(base, name, level, time) ==
    [ts |-> base[level].ts, level |-> base[level].level, name |-> name, at |-> time]

InitLogger ==
    /\ Quiet
    /\ arg = [base |-> baseLogger(now), threads |-> {}]
    /\ ret = <<>>

\* createThread( label ), lines 58-70
LoggerCreateThread(label) ==
    /\ Calls < MaxCalls
    /\ createThread(label)
    /\ arg' = [arg EXCEPT !.threads =
                  @ \cup {ThreadName(label, NextThreadId(lastThreadIds, label))}]
    /\ ret' = <<>>
    /\ UNCHANGED <<ENABLE_GROUPS, enableGroups, disk, hs, returned, posts,
                   nextMessageId, now, hist>>

\* thread.<level>( message ) or main.<level>( message ); debug lines are
\* dropped unless process.env.DEBUG is set (lines 12-14, 38-40)
LoggerWrite(name, level, DEBUG) ==
    /\ name \in arg.threads \cup {MainName}
    /\ ret' = IF level = "debug" /\ ~DEBUG THEN <<>>
              ELSE <<Line(arg.base, name, level, now)>>
    /\ arg' = arg
    /\ BotUnchanged

\* a millisecond passes
LoggerTick ==
    /\ now < MaxTicks
    /\ now' = now + 1
    /\ ret' = <<>>
    /\ arg' = arg
    /\ UNCHANGED <<ENABLE_GROUPS, enableGroups, disk, lastThreadIds, issued, hs,
                   returned, posts, nextMessageId, hist>>

NextLogger ==
    \/ \E label \in Labels : LoggerCreateThread(label)
    \/ \E name \in arg.threads \cup {MainName}, level \in Levels, DEBUG \in BOOLEAN :
           LoggerWrite(name, level, DEBUG)
    \/ LoggerTick

SpecLogger == InitLogger /\ [][NextLogger]_vars

(***************************************************************************)
(* The claims.                                                             *)
(***************************************************************************)
\* the integers listed in a value of ENABLE_GROUPS, read in decimal
ListedIds(value) ==
    {parseInt(token, 10)[1] : token \in Range(split(value, ","))}

HasAttachment(inv) == getFileIds(inv.msg[1]) # <<>>

Skipped(inv) == inv.outcome = "not in enableGroups, skip."

\* C1: a message from a chat whose id is not listed in ENABLE_GROUPS is
\* skipped: its handler returns at the allow-list check, having called nothing,
\* and no handler for such a chat is ever waiting on a download.
C1_UnlistedChatIsSkipped ==
    /\ \A h \in Slots :
           hs[h].kind = "message" => hs[h].chat \in ListedIds(ENABLE_GROUPS)
    /\ (returned.kind = "message" /\ returned.chat \notin ListedIds(ENABLE_GROUPS))
           => (Skipped(returned) /\ returned.calls = <<>>)

\* C2: a message with an attachment from a chat listed at any position of
\* ENABLE_GROUPS passes the allow-list check.
C2_ListedChatPasses ==
    (/\ returned.kind = "message"
     /\ returned.chat \in ListedIds(ENABLE_GROUPS)
     /\ HasAttachment(returned))
        => ~Skipped(returned)

\* ^[0-9a-f]{8,9}\.[a-z]+$
MatchesNamePattern(s) ==
    \E k \in DOMAIN s :
        /\ s[k] = "."
        /\ k - 1 \in 8..9
        /\ k < Len(s)
        /\ \A i \in 1..(k - 1) : s[i] \in HexDigits
        /\ \A i \in (k + 1)..Len(s) : s[i] \in Letters

\* a dot followed by one or more ASCII letters
IsDotLetters(ext) ==
    /\ Len(ext) >= 2
    /\ ext[1] = "."
    /\ \A i \in 2..Len(ext) : ext[i] \in Letters \cup Range(UpperLetters)

\* C3, as claimed: for every resolved URL the file name matches
\* ^[0-9a-f]{8,9}\.[a-z]+$ and ends with the lowercased extension of the URL.
C3_NameAlwaysMatches ==
    ret # <<>> =>
        /\ MatchesNamePattern(ret[1])
        /\ \E k \in 8..9 :
               SubSeq(ret[1], k + 1, Len(ret[1])) = toLowerCase(extname(arg.href))

\* C3, amended: the file name is nine lowercase hexadecimal digits followed by
\* the lowercased extension of the URL, and it matches ^[0-9a-f]{8,9}\.[a-z]+$
\* exactly when that extension is a dot followed by one or more ASCII letters.
C3_NameIsHexPlusLowerExt ==
    ret # <<>> =>
        LET name == ret[1]
        IN  /\ Len(name) >= 9
            /\ \A i \in 1..9 : name[i] \in HexDigits
            /\ SubSeq(name, 10, Len(name)) = toLowerCase(extname(arg.href))
            /\ MatchesNamePattern(name) <=> IsDotLetters(extname(arg.href))

\* a URL ending in .Jg got a name ending in .jg, which matches the pattern
C3_Witness ==
    /\ ret # <<>>
    /\ arg.href = UrlStem \o <<".", "J", "g">>
    /\ SubSeq(ret[1], 10, Len(ret[1])) = <<".", "j", "g">>
    /\ MatchesNamePattern(ret[1])

\* C4: every button the message handler has posted carries a payload that one
\* of the router's two patterns matches, with the posted file name as the file.
C4_PostedButtonsAreRouted ==
    \A p \in posts :
        p.data # <<>> =>
            \/ /\ Route(p.data).action = "exist"
               /\ p.data = ExistPrefix \o Route(p.data).file
            \/ /\ Route(p.data).action = "remove"
               /\ p.data = RemovePrefix \o Route(p.data).file

\* the variant getFileIds returned: variant i has file_id p<i>
ReturnedVariant == DigitValue(ret[1][1].file_id[2])

Declared(photo) == {i \in DOMAIN photo : "file_size" \in DOMAIN photo[i]}

\* C5, as claimed: the returned variant has the maximum declared size, and is
\* the first of the variants that declare it.
C5_MaxDeclaredSizeFirst ==
    (ret # <<>> /\ Declared(arg.photo) # {}) =>
        LET photo == arg.photo
            r == ReturnedVariant
        IN  /\ r \in Declared(photo)
            /\ \A j \in Declared(photo) :
                   /\ photo[j].file_size <= photo[r].file_size
                   /\ photo[j].file_size = photo[r].file_size => r <= j

\* the size of a variant, none declared counting as 0
SizeOf(p) == IF "file_size" \in DOMAIN p THEN p.file_size ELSE 0

\* C5, amended: counting a variant that declares no size as size 0, the
\* returned variant has the maximum size and is the first of those that have it.
C5_MaxSizeFirst ==
    ret # <<>> =>
        LET photo == arg.photo
            r == ReturnedVariant
        IN  /\ ret[1] # <<>>
            /\ ret[1][1] = photo[r] @@ [file_type |-> "photo"]
            /\ \A j \in DOMAIN photo :
                   /\ SizeOf(photo[j]) <= SizeOf(photo[r])
                   /\ SizeOf(photo[j]) = SizeOf(photo[r]) => r <= j

\* sizes 1, 2, 2: the second variant is returned, not the third
C5_Witness ==
    /\ ret # <<>>
    /\ Len(arg.photo) = 3
    /\ SizeOf(arg.photo[1]) = 1 /\ SizeOf(arg.photo[2]) = 2 /\ SizeOf(arg.photo[3]) = 2
    /\ ReturnedVariant = 2

\* one character, escaped
EscapedChar(c) ==
    IF c = "&" THEN Amp ELSE IF c = "<" THEN Lt ELSE IF c = ">" THEN Gt ELSE <<c>>

Escaped(v) == Concat([i \in DOMAIN v |-> EscapedChar(v[i])])

RECURSIVE Interleave(_, _)
Interleave(formats, values) ==
    IF values = <<>> THEN Concat(formats)
    ELSE Head(formats) \o Head(values) \o Interleave(Tail(formats), Tail(values))

\* C10: the result is the literal template text, unchanged, interleaved with
\* the values, in which each character & < > is replaced once by its entity and
\* every other character is kept.
C10_EscapesOnceValuesOnly ==
    ret # <<>> =>
        ret[1] = Interleave(arg.formats,
                            [i \in DOMAIN arg.patterns |-> Escaped(arg.patterns[i])])

\* the value <b>& renders as &lt;b&gt;&amp; between the template's texts
C10_Witness ==
    /\ ret # <<>>
    /\ arg.formats = Template1
    /\ arg.patterns = << <<"<","b",">","&">> >>
    /\ ret[1] = Template1[1]
                  \o <<"&","l","t",";","b","&","g","t",";","&","a","m","p",";">>
                  \o Template1[2]

\* text contains part
Contains(text, part) ==
    \E i \in 1..(Len(text) - Len(part) + 1) :
        SubSeq(text, i, i + Len(part) - 1) = part

IsExistText == <<"i","s"," ","e","x","i","s","t">>
IsntExistText == <<"i","s","n","'","t"," ","e","x","i","s","t">>
HasBeenRemovedText == <<"h","a","s"," ","b","e","e","n"," ","r","e","m","o","v","e","d">>

\* slot h holds an exist invocation that takes a step (it starts, or access
\* settles and it returns)
ExistStep(h) ==
    /\ hs[h].kind = "exist" \/ hs'[h].kind = "exist"
    /\ hs'[h] # hs[h]

\* C6: no step of an exist handler changes the files on disk, and when it
\* returns its acknowledgment has cache_time 0 and, unless the probe raised an
\* error other than not-found, says "is exist" if the file is on disk and
\* "isn't exist" if it is not.
C6_ExistAnswersByDisk ==
    [][\A h \in Slots :
         ExistStep(h) =>
            /\ disk' = disk
            /\ hs'[h].kind = "idle" =>
                  LET file == hs[h].fileName
                      answer == returned'.ack[1]
                  IN  /\ returned'.kind = "exist"
                      /\ answer.cache_time = 0
                      /\ returned'.probe # "EACCES" =>
                            /\ file \in disk => Contains(answer.text, IsExistText)
                            /\ file \notin disk => Contains(answer.text, IsntExistText)
                            /\ Contains(answer.text, file)]_vars

\* an exist handler found its file on disk and said so
C6_Witness ==
    /\ returned.kind = "exist"
    /\ returned.fileName \in disk
    /\ returned.ack = <<[text |-> T_File \o returned.fileName \o T_IsExist,
                         cache_time |-> 0]>>

\* the message that carried the pressed button, among the messages ps
PostOf(ps, message) ==
    {p \in ps : p.chat = message.chat /\ p.message_id = message.message_id}

\* slot h holds a remove invocation that returns after rm succeeded, its
\* broadcast message still being on the platform
RemoveSucceeds(h) ==
    /\ hs[h].kind = "remove"
    /\ hs[h].pc = "rm"
    /\ hs'[h].kind = "idle"
    /\ returned'.outcome = "file is removed."
    /\ PostOf(posts, hs[h].cbMessage[1]) # {}

\* C7: when a remove handler has probed and removed a file that was on disk,
\* the file is absent, and the broadcast message is edited to "File <f> has
\* been removed." if now - message timestamp > 48h and is deleted otherwise,
\* never both.
C7_RemovesFileAndEditsOrDeletes ==
    [][\A h \in Slots :
         RemoveSucceeds(h) =>
            LET message == hs[h].cbMessage[1]
                file == hs[h].fileName
                old == now - message.date * 1000 > TooOldMs
                edited == \E p \in PostOf(posts', message) :
                              p.text = T_File \o file \o T_Removed
                deleted == PostOf(posts', message) = {}
            IN  /\ file \notin disk'
                /\ old => (edited /\ ~deleted)
                /\ ~old => (deleted /\ ~edited)]_vars

\* slot h holds a remove invocation whose probe settles on a file that is not
\* on disk
RemoveProbesAbsent(h) ==
    /\ hs[h].kind = "remove"
    /\ hs[h].pc = "access"
    /\ hs'[h] # hs[h]
    /\ hs[h].fileName \notin disk

\* C8: when the probe of a remove handler finds the file absent (and raises no
\* other error), the handler returns in the already-removed branch: it has not
\* called rm, the files on disk are unchanged, and it acknowledges that the
\* file has been removed; so does every later remove of that name.
C8_AbsentFileIsAlreadyRemoved ==
    [][\A h \in Slots :
         (RemoveProbesAbsent(h) /\ returned'.probe # "EACCES") =>
            /\ disk' = disk
            /\ returned'.kind = "remove"
            /\ returned'.isExist = FALSE
            /\ \A i \in DOMAIN returned'.calls : returned'.calls[i].fn # "rm"
            /\ Contains(returned'.ack[1].text, HasBeenRemovedText)
            /\ Contains(returned'.ack[1].text, hs[h].fileName)
            /\ ~Contains(returned'.ack[1].text, T_FailResolveFile)]_vars

\* a second remove of a name has found the file already removed
C8_Witness ==
    /\ returned.kind = "remove"
    /\ returned.probe = "ENOENT"
    /\ Len(issued["onAction:remove"]) >= 2
    /\ returned.fileName \notin disk
    /\ returned.ack[1].text = T_FileNoSpace \o returned.fileName \o T_Removed

\* C9: for every label, the ids createThread has handed out are 1, 2, 3, ...
\* in this order, whatever the other labels got, and the Map holds the last.
C9_ThreadIdsCountUp ==
    \A l \in Labels :
        /\ issued[l] = [i \in 1..Len(issued[l]) |-> i]
        /\ IF l \in DOMAIN lastThreadIds
           THEN lastThreadIds[l] = Len(issued[l])
           ELSE issued[l] = <<>>

\* two labels have counted independently
C9_Witness ==
    /\ issued["onMessage"] = <<1>>
    /\ issued["onAction:exist"] = <<1>>
    /\ issued["onAction:remove"] = <<1, 2>>

\* the required variables, by position, that are missing or empty in env
BadRequired(env) ==
    {i \in DOMAIN Required : env[Required[i]] = <<>> \/ env[Required[i]] = << <<>> >>}

\* C11: when a required variable is missing or empty, the process reads no
\* variable past the first such one, registers no handler, creates no webhook
\* and does not listen, and if it has exited it exited there with status 1;
\* when all required variables are set the process never exits, whatever PORT.
C11_MissingRequiredExitsFirst ==
    LET bad == BadRequired(arg)
        first == CHOOSE i \in bad : \A j \in bad : i <= j
    IN  IF bad # {}
        THEN /\ ~ret.handlers /\ ~ret.webhook /\ ~ret.listening
             /\ ret.pc \in {"getEnv", "exited"}
             /\ ret.read < first
             /\ ret.pc = "getEnv" => ret.status = <<>>
             /\ ret.pc = "exited" => (ret.status = <<1>> /\ ret.read = first - 1)
        ELSE /\ ret.pc # "exited"
             /\ ret.status = <<>>
             /\ ret.pc = "running" => (ret.handlers /\ ret.webhook /\ ret.listening)

\* INFO_CHANNEL, the last required variable, is empty and PORT is missing: the
\* process has exited with status 1 after reading the other four
C11_Witness ==
    /\ arg["INFO_CHANNEL"] = << <<>> >>
    /\ arg["PORT"] = <<>>
    /\ ret.pc = "exited"
    /\ ret.status = <<1>>
    /\ ret.read = 4
    /\ ~ret.handlers

\* a remove invocation has returned after its last step, where it edits or
\* deletes the message that carried the button
RemoveFinished(inv) ==
    /\ inv.kind = "remove"
    /\ inv.outcome \in {"file is removed.", "file has been removed."}

\* C12: when the message that carried the pressed remove button is older than
\* 48 hours, the handler's last call is editMessageText addressed by that
\* message's own chat id and message id, with the text "File <f> has been
\* removed.", and the handler has not called deleteMessage.
C12_EditAddressesTheMessage ==
    (RemoveFinished(returned)
       /\ now - returned.cbMessage[1].date * 1000 > TooOldMs)
    => LET message == returned.cbMessage[1]
           call == returned.calls[Len(returned.calls)]
       IN  /\ call.fn = "editMessageText"
           /\ call.chat_id = message.chat
           /\ call.message_id = message.message_id
           /\ call.text = T_File \o returned.fileName \o T_Removed
           /\ \A i \in DOMAIN returned.calls :
                  returned.calls[i].fn # "deleteMessage"

\* the remove invocation in slot h returns in this step
RemoveReturns(h) == hs[h].kind = "remove" /\ hs'[h].kind = "idle"

\* the calls of an invocation that change the message or the files
Touches(calls, fns) == \E i \in DOMAIN calls : calls[i].fn \in fns

FailureText(file) == T_FailResolveFile \o file \o T_SpaceDot

\* C13: a remove handler whose access probe fails with an error other than
\* not-found answers "Fail to resolve file <f> ." and returns having called
\* neither rm nor editMessageText nor deleteMessage; one whose probe succeeds
\* and whose rm fails answers the same and returns having called neither
\* editMessageText nor deleteMessage; in both cases the messages are as they
\* were, and the files too.
C13_FailuresAbortUntouched ==
    [][\A h \in Slots :
         RemoveReturns(h) =>
            LET inv == returned'
                probeFails == inv.probe \notin {"ok", "ENOENT"}
                rmFails == inv.probe = "ok" /\ inv.rm # "ok"
            IN  /\ probeFails =>
                      /\ inv.ack[1].text = FailureText(inv.fileName)
                      /\ ~Touches(inv.calls, {"rm", "editMessageText", "deleteMessage"})
                      /\ posts' = posts
                      /\ disk' = disk
                /\ rmFails =>
                      /\ inv.ack[1].text = FailureText(inv.fileName)
                      /\ Touches(inv.calls, {"rm"})
                      /\ ~Touches(inv.calls, {"editMessageText", "deleteMessage"})
                      /\ posts' = posts
                      /\ disk' = disk]_vars

\* rm has failed on a file that is on disk, after a probe that succeeded; the
\* message that carried the button is still there
C13_Witness ==
    /\ returned.kind = "remove"
    /\ returned.probe = "ok"
    /\ returned.rm = "EACCES"
    /\ returned.fileName \in disk
    /\ PostOf(posts, returned.cbMessage[1]) # {}
    /\ returned.ack[1].text = FailureText(returned.fileName)

\* C14: two remove handlers race for one file: when rm of the second finds the
\* file gone (its probe had found it), that handler answers "Fail to resolve
\* file <f> ." and not "has been removed", and calls neither editMessageText
\* nor deleteMessage.
C14_LoserOfRaceFails ==
    [][\A h \in Slots :
         (/\ RemoveReturns(h)
          /\ hs[h].pc = "rm"
          /\ hs[h].fileName \notin disk
          /\ returned'.rm # "EACCES")
         => /\ returned'.probe = "ok"
            /\ returned'.rm = "ENOENT"
            /\ returned'.ack[1].text =
                   T_FailResolveFile \o hs[h].fileName \o T_SpaceDot
            /\ ~Contains(returned'.ack[1].text, HasBeenRemovedText)
            /\ \A i \in DOMAIN returned'.calls :
                   returned'.calls[i].fn \notin {"editMessageText", "deleteMessage"}
            /\ posts' = posts]_vars

\* the file was stored once; two remove handlers probed it while it was there;
\* one has removed it, and the other's rm has failed with not-found
C14_Witness ==
    /\ Len(issued["onMessage"]) = 1
    /\ Len(issued["onAction:remove"]) = 2
    /\ returned.kind = "remove"
    /\ returned.probe = "ok"
    /\ returned.rm = "ENOENT"
    /\ returned.outcome = "rm failed"
    /\ returned.fileName \notin disk

\* a remove handler for file has not returned yet
RemoveInFlight(file) ==
    \E h \in Slots : hs[h].kind = "remove" /\ hs[h].fileName = file

SuccessText(file) == T_Delete \o file \o T_Success

\* C15: for a file name that downloads have stored once and not again, however
\* the remove handlers for it interleave: at most one of them has acknowledged
\* "Delete <f> success." (a handler acknowledges so exactly when its rm
\* succeeded), and when none of them is still running, some probe has found
\* the file and no rm has failed other than with not-found, the file is not on
\* disk.
C15_OneSuccessAndFileGone ==
    /\ returned.kind = "remove" =>
          /\ (returned.ack[1].text = SuccessText(returned.fileName))
                <=> (returned.rm = "ok")
          /\ returned.rm = "ok" => returned.fileName \in hist.acked
    /\ \A file \in hist.stored \ hist.again :
          /\ file \notin hist.twice
          /\ (/\ ~RemoveInFlight(file)
              /\ file \in hist.probed
              /\ file \notin hist.faulted) => file \notin disk

\* three remove handlers for a file stored once have run: one has acknowledged
\* success, the last has taken the already-removed branch, none is running
C15_Witness ==
    /\ Len(issued["onAction:remove"]) = 3
    /\ returned.kind = "remove"
    /\ returned.outcome = "file has been removed."
    /\ returned.fileName \in (hist.stored \ hist.again) \cap hist.acked
    /\ returned.fileName \notin hist.faulted
    /\ ~RemoveInFlight(returned.fileName)
    /\ returned.fileName \notin disk

\* how many calls of the functions fns an invocation has made
RECURSIVE CountCalls(_, _)
CountCalls(calls, fns) ==
    IF calls = <<>> THEN 0
    ELSE (IF Head(calls).fn \in fns THEN 1 ELSE 0) + CountCalls(Tail(calls), fns)

\* the message handler in slot h returns in this step out of processFile's
\* failure: getFileLink or the download has thrown
ProcessFileFails(h) ==
    /\ hs[h].kind = "message"
    /\ hs[h].pc \in {"getFileLink", "fetch"}
    /\ hs'[h].kind = "idle"
    /\ returned'.outcome # "sent"

\* C16: when processFile fails for an allowed message with an attachment, the
\* handler calls thread.error, then replies "Fail to resolve file." to the
\* message, and returns: that reply is its only send and the only new message,
\* it carries no button, and getFileLink was called once and the file opened
\* at most once (no retry).
C16_FailureRepliesOnce ==
    [][\A h \in Slots :
         ProcessFileFails(h) =>
            LET calls == returned'.calls
                n == Len(calls)
            IN  /\ n >= 3
                /\ calls[n - 1].fn = "thread.error"
                /\ calls[n] = [fn |-> "sendMessage", chat_id |-> hs[h].chat,
                               text |-> T_FailResolve, data |-> <<>>,
                               reply_to_message_id |-> hs[h].msg[1].message_id]
                /\ CountCalls(calls, {"sendMessage"}) = 1
                /\ CountCalls(calls, {"getFileLink"}) = 1
                /\ CountCalls(calls, {"createWriteStream"}) <= 1
                /\ \E p \in posts' :
                      /\ posts' = posts \cup {p}
                      /\ p \notin posts
                      /\ p.chat = hs[h].chat
                      /\ p.text = T_FailResolve
                      /\ p.data = <<>>]_vars

\* the download has failed after the file was opened: the handler has logged
\* the error and replied, and the truncated file is on disk
C16_Witness ==
    /\ returned.kind = "message"
    /\ returned.outcome = "Fail to resolve file."
    /\ returned.fileName \in disk
    /\ CountCalls(returned.calls, {"thread.error"}) = 1
    /\ CountCalls(returned.calls, {"createWriteStream"}) = 1
    /\ \E p \in posts : p.text = T_FailResolve /\ p.chat = returned.chat

\* C17: a message handler whose download has succeeded has, after opening the
\* file under the name processFile returned, sent exactly two messages: a reply
\* to the message in its chat with the button payload 'exist:' + name and a
\* broadcast to the audit channel with the payload 'remove:' + name.  And
\* every button that has been posted names a file that a download has stored.
C17_ButtonsFollowTheFile ==
    /\ (returned.kind = "message" /\ returned.outcome = "sent") =>
          LET name == returned.fileName
              calls == returned.calls
          IN  /\ name \in hist.stored
              /\ Len(calls) = 4
              /\ calls[1].fn = "getFileLink"
              /\ calls[2] = [fn |-> "createWriteStream", path |-> name]
              /\ calls[3].fn = "sendMessage"
              /\ calls[3].chat_id = returned.chat
              /\ calls[3].reply_to_message_id = returned.msg[1].message_id
              /\ calls[3].data = ExistPrefix \o name
              /\ calls[4].fn = "sendMessage"
              /\ calls[4].chat_id = InfoChannelId
              /\ calls[4].data = RemovePrefix \o name
    /\ \A p \in posts :
          p.data # <<>> =>
             \E name \in hist.stored :
                 \/ p.chat # InfoChannelId /\ p.data = ExistPrefix \o name
                 \/ p.chat = InfoChannelId /\ p.data = RemovePrefix \o name

\* a download has succeeded: the file is on disk and both buttons are posted
C17_Witness ==
    /\ returned.kind = "message"
    /\ returned.outcome = "sent"
    /\ returned.fileName \in disk
    /\ \E p \in posts : p.chat = returned.chat
                          /\ p.data = ExistPrefix \o returned.fileName
    /\ \E p \in posts : p.chat = InfoChannelId
                          /\ p.data = RemovePrefix \o returned.fileName

\* the six kinds, in the order the claim gives
KindOrder == <<"photo", "sticker", "audio", "voice", "video", "document">>

\* the message carries kind k and it yields an attachment: any file of the
\* other kinds, at least one variant for a photo
Yields(message, k) ==
    /\ k \in DOMAIN message
    /\ k = "photo" => message.photo # <<>>

\* C18: getFileIds returns the attachment of the first kind, in the order
\* photo, sticker, audio, voice, video, document, that the message carries
\* (for photo: with at least one variant), tagged with that kind, and returns
\* false exactly when no kind yields an attachment.
C18_FirstKindInOrder ==
    ret # <<>> =>
       LET yielding == {i \in DOMAIN KindOrder : Yields(arg, KindOrder[i])}
           first == CHOOSE i \in yielding : \A j \in yielding : i <= j
           k == KindOrder[first]
           file == ret[1][1]
       IN  IF yielding = {}
           THEN ret[1] = <<>>
           ELSE /\ ret[1] # <<>>
                /\ file.file_type = k
                /\ IF k = "photo"
                   THEN \E i \in DOMAIN arg.photo :
                            file = arg.photo[i] @@ [file_type |-> "photo"]
                   ELSE file = arg[k] @@ [file_type |-> k]

\* a message with an empty photo list, a voice and a document: the voice is
\* returned
C18_Witness ==
    /\ ret # <<>>
    /\ DOMAIN arg = {"message_id", "photo", "voice", "document"}
    /\ arg.photo = <<>>
    /\ ret[1] = <<KindFile("voice") @@ [file_type |-> "voice"]>>

\* C19: the line a write emits carries the time at which the write was called
\* and the level written, and a line of a thread carries the label and the
\* sequence id of a thread that createThread has made.
C19_LineCarriesWriteTime ==
    ret # <<>> =>
       /\ ret[1].ts = ret[1].at
       /\ ret[1].level \in {LevelText[level] : level \in Levels}
       /\ ret[1].name # MainName =>
             \E label \in Labels, id \in 1..MaxCalls :
                 /\ id <= Len(issued[label])
                 /\ ret[1].name = LabelText[label] \o <<":">> \o String(id)

====
